---- MODULE Spec2Model ----
(***************************************************************************)
(* The resource services of the repository (users, orders, payments,      *)
(* deliveries): HTTP handlers that decode a JSON body and issue exactly   *)
(* one SQL statement against the PostgreSQL store created by the          *)
(* init-scripts.  One behaviour follows one service and its store; the    *)
(* service is chosen in Init.                                             *)
(*                                                                         *)
(* Amounts are in thousandths (10.005 is 10005): the store keeps          *)
(* DECIMAL(10, 2).  Timestamps are readings of the store's clock.         *)
(***************************************************************************)
EXTENDS Integers, Sequences, FiniteSets, TLC

VARIABLES
    kind,       \* the service and its store: "users", "orders", "payments", "deliveries"
    rows,       \* the table: row id -> record of its columns
    seq,        \* last value of the table's id sequence (SERIAL)
    clock,      \* the store's clock (0 is the time of the bootstrap)
    req,        \* per concurrent request handler: its position and locals
    nreq,       \* requests received so far
    nexec,      \* statements executed by the store so far
    issued,     \* history: the ids returned by successful Creates, in order
    deleted,    \* history: the ids whose Delete was answered 204
    proc,       \* per replica of the service: the position of its main() and its globals
    storeUp,    \* whether the store answers a connection attempt
    gateway     \* the gateway in front of the replicas, and the probes it has passed on

storeVars == <<kind, rows, seq, clock, req, nreq, nexec, issued, deleted>>
procVars == <<proc, storeUp, gateway>>
vars == <<kind, rows, seq, clock, req, nreq, nexec, issued, deleted,
          proc, storeUp, gateway>>

----------------------------------------------------------------------------
(* Bounds of the model. *)

MaxRequests == 3
NumHandlers == 2
MaxRows == 102
NumReplicas == 2
MaxProbes == 5

Handlers == 1..NumHandlers
Replicas == 1..NumReplicas

(* Program constants. *)

PageSize == 100
StatusOK == 200
StatusCreated == 201
StatusNoContent == 204
StatusBadRequest == 400
StatusNotFound == 404
StatusInternalServerError == 500

Kinds == {"users", "orders", "payments", "deliveries"}

\* Zero value of the Go string fields CreatedAt / UpdatedAt (the empty string).
NoTime == -1
\* SQL NULL and Go nil (*int).
NULL == -1

----------------------------------------------------------------------------
(* The structs of the four services, as decoded from a request body.  The  *)
(* validate tags are the constraints each struct declares.                 *)

WellFormedEmails == {"alice@example.com", "bob@example.com", "charlie@example.com",
                     "dave@example.com", "erin@example.com"}

\* validate:"required,email"
IsEmail(s) == s \in WellFormedEmails

\* User: validate tags of Email, Name, Age
UserValid(u) ==
    /\ u.Email # "" /\ IsEmail(u.Email)
    /\ Len(u.Name) >= 2 /\ Len(u.Name) <= 100
    /\ u.Age >= 1 /\ u.Age <= 150

OrderStatuses == {"pending", "confirmed", "shipped", "delivered", "cancelled"}

\* Order: validate tags of UserID, TotalAmount, Status
OrderValid(o) ==
    /\ o.UserID # 0
    /\ o.TotalAmount > 0
    /\ o.Status \in OrderStatuses

PaymentStatuses == {"pending", "completed", "failed", "refunded"}
PaymentMethods == {"card", "cash", "paypal"}

\* Payment: validate tags of OrderID, Amount, Status, PaymentMethod
PaymentValid(p) ==
    /\ p.OrderID # 0
    /\ p.Amount > 0
    /\ p.Status \in PaymentStatuses
    /\ p.PaymentMethod \in PaymentMethods

DeliveryStatuses == {"pending", "in_transit", "delivered", "failed"}

\* Delivery: validate tags of OrderID, Address, Status
DeliveryValid(d) ==
    /\ d.OrderID # 0
    /\ Len(d.Address) >= 10 /\ Len(d.Address) <= 500
    /\ d.Status \in DeliveryStatuses

\* The constraints the struct of service k declares for a payload.
Valid(k, u) ==
    CASE k = "users" -> UserValid(u)
      [] k = "orders" -> OrderValid(u)
      [] k = "payments" -> PaymentValid(u)
      [] k = "deliveries" -> DeliveryValid(u)

----------------------------------------------------------------------------
(* The tables the init-scripts create. *)

\* The columns of CREATE TABLE <k>.
TableColumns(k) ==
    CASE k = "users" ->
           {"id", "email", "name", "age", "created_at", "updated_at"}
      [] k = "orders" ->
           {"id", "user_id", "items", "total_amount", "status", "created_at", "updated_at"}
      [] k = "payments" ->
           {"id", "user_id", "order_id", "amount", "status", "created_at", "updated_at"}
      [] k = "deliveries" ->
           {"id", "user_id", "order_id", "address", "status", "tracking_id",
            "created_at", "updated_at"}

\* Columns declared with a DEFAULT (or SERIAL).
DefaultColumns(k) ==
    {"id", "created_at", "updated_at"} \cup
    (CASE k = "orders" -> {"items", "status"}
       [] k \in {"payments", "deliveries"} -> {"status"}
       [] OTHER -> {})

\* The DEFAULT of a column that is neither the id nor a timestamp.
ColumnDefault(k, c) ==
    CASE c = "items" -> "[]"
      [] c = "status" /\ k = "orders" -> "created"
      [] c = "status" -> "pending"

\* Columns declared NOT NULL (PRIMARY KEY included).
NotNullColumns(k) ==
    CASE k = "users" -> {"id", "email", "name", "age"}
      [] k = "orders" -> {"id", "user_id", "total_amount"}
      [] k = "payments" -> {"id", "user_id", "order_id", "amount"}
      [] k = "deliveries" -> {"id", "user_id", "order_id", "address", "tracking_id"}

\* Columns declared UNIQUE besides the primary key.
UniqueColumns(k) ==
    CASE k = "users" -> {"email"}
      [] k = "deliveries" -> {"tracking_id"}
      [] OTHER -> {}

\* The CHECK constraints of the table, on a row about to be written.
CheckOK(k, row) ==
    CASE k = "users" -> row.age >= 0 /\ row.age <= 150
      [] k = "orders" -> row.total_amount >= 0
      [] k = "payments" -> row.amount > 0
      [] OTHER -> TRUE

\* DECIMAL(10, 2): a value in thousandths rounded to hundredths, half away from zero.
RoundCents(m) ==
    IF m >= 0 THEN ((m + 5) \div 10) * 10 ELSE 0 - (((0 - m) + 5) \div 10) * 10

\* The value column c holds when v is assigned to it.
Coerce(c, v) ==
    IF c \in {"total_amount", "amount"} THEN RoundCents(v) ELSE v

\* The demo rows each script inserts; every timestamp is the time of the bootstrap.
BootstrapRows(k) ==
    CASE k = "users" ->
           [i \in 1..3 |->
              [id |-> i,
               email |-> <<"alice@example.com", "bob@example.com", "charlie@example.com">>[i],
               name |-> <<"Alice Johnson", "Bob Smith", "Charlie Brown">>[i],
               age |-> <<28, 35, 42>>[i],
               created_at |-> 0, updated_at |-> 0]]
      [] k = "orders" ->
           [i \in 1..3 |->
              [id |-> i, user_id |-> i,
               items |-> <<"[\"MacBook Pro 16\", \"Magic Mouse\"]",
                           "[\"Dell Monitor 27\", \"Mechanical Keyboard\"]",
                           "[\"iPad Pro\", \"Apple Pencil\"]">>[i],
               total_amount |-> <<2500000, 800000, 1200000>>[i],
               status |-> <<"completed", "processing", "created">>[i],
               created_at |-> 0, updated_at |-> 0]]
      [] k = "payments" ->
           [i \in 1..3 |->
              [id |-> i, user_id |-> i, order_id |-> i,
               amount |-> <<2500000, 800000, 1200000>>[i],
               status |-> <<"completed", "completed", "pending">>[i],
               created_at |-> 0, updated_at |-> 0]]
      [] k = "deliveries" ->
           [i \in 1..3 |->
              [id |-> i, user_id |-> i, order_id |-> i,
               address |-> <<"742 Evergreen Terrace, Springfield, USA",
                             "31 Spooner Street, Quahog, USA",
                             "123 Main Street, Shelbyville, USA">>[i],
               status |-> <<"delivered", "in_transit", "pending">>[i],
               tracking_id |-> <<"TRK001", "TRK002", "TRK003">>[i],
               created_at |-> 0, updated_at |-> 0]]

----------------------------------------------------------------------------
(* The statements of the handlers. *)

\* Args with the id of the body passed along when the body carries one.
ArgsClientID(k, u) ==
    LET base ==
            CASE k = "users" ->
                   [email |-> u.Email, name |-> u.Name, age |-> u.Age]
              [] k = "orders" ->
                   [user_id |-> u.UserID, total_amount |-> u.TotalAmount,
                    status |-> u.Status]
              [] k = "payments" ->
                   [order_id |-> u.OrderID, amount |-> u.Amount, status |-> u.Status,
                    payment_method |-> u.PaymentMethod]
              [] k = "deliveries" ->
                   [order_id |-> u.OrderID, address |-> u.Address, status |-> u.Status,
                    courier_id |-> u.CourierID]
    IN  IF u.ID # 0 THEN [id |-> u.ID] @@ base ELSE base

\* The columns an INSERT / UPDATE of service k assigns from the struct, with
\* the arguments the handler passes.
Args(k, u) ==
    CASE k = "users" ->
           [email |-> u.Email, name |-> u.Name, age |-> u.Age]
      [] k = "orders" ->
           [user_id |-> u.UserID, total_amount |-> u.TotalAmount, status |-> u.Status]
      [] k = "payments" ->
           [order_id |-> u.OrderID, amount |-> u.Amount, status |-> u.Status,
            payment_method |-> u.PaymentMethod]
      [] k = "deliveries" ->
           [order_id |-> u.OrderID, address |-> u.Address, status |-> u.Status,
            courier_id |-> u.CourierID]

\* The columns the SELECT of Get and List and the RETURNING of Update name.
SelectColumns(k) ==
    {"id", "created_at", "updated_at"} \cup
    (CASE k = "users" -> {"email", "name", "age"}
       [] k = "orders" -> {"user_id", "total_amount", "status"}
       [] k = "payments" -> {"order_id", "amount", "status", "payment_method"}
       [] k = "deliveries" -> {"order_id", "address", "status", "courier_id"})

\* A statement naming a column the table does not have fails.
ColumnsExist(k, cols) == cols \subseteq TableColumns(k)

\* Scan of a selected row into the struct of service k.
ScanStruct(k, row) ==
    CASE k = "users" ->
           [ID |-> row.id, Email |-> row.email, Name |-> row.name, Age |-> row.age,
            CreatedAt |-> row.created_at, UpdatedAt |-> row.updated_at]
      [] k = "orders" ->
           [ID |-> row.id, UserID |-> row.user_id, TotalAmount |-> row.total_amount,
            Status |-> row.status,
            CreatedAt |-> row.created_at, UpdatedAt |-> row.updated_at]
      [] k = "payments" ->
           [ID |-> row.id, OrderID |-> row.order_id, Amount |-> row.amount,
            Status |-> row.status, PaymentMethod |-> row.payment_method,
            CreatedAt |-> row.created_at, UpdatedAt |-> row.updated_at]
      [] k = "deliveries" ->
           [ID |-> row.id, OrderID |-> row.order_id, Address |-> row.address,
            Status |-> row.status, CourierID |-> row.courier_id,
            CreatedAt |-> row.created_at, UpdatedAt |-> row.updated_at]

\* What a statement leaves: the error, the table and sequence after it, and
\* the rows it returns.
Result(err, tbl, sq, ret) == [err |-> err, rows |-> tbl, seq |-> sq, ret |-> ret]

\* nextval of the SERIAL column's sequence.
NextVal(sq) == sq + 1

\* The row an INSERT builds: the arguments, the id from the sequence, and the
\* DEFAULTs; created_at and updated_at both DEFAULT CURRENT_TIMESTAMP.
InsertedRow(k, args, id, now) ==
    [c \in TableColumns(k) |->
        IF c \in DOMAIN args THEN Coerce(c, args[c])
        ELSE IF c = "id" THEN id
        ELSE IF c \in {"created_at", "updated_at"} THEN now
        ELSE IF c \in DefaultColumns(k) THEN ColumnDefault(k, c)
        ELSE NULL]

\* UniqueOK for a table declared without its UNIQUE constraints.
UniqueOKUndeclared(k, row, tbl) == TRUE

\* No other row holds the row's value in a UNIQUE column.
UniqueOK(k, row, tbl) ==
    \A c \in UniqueColumns(k) :
        \A i \in DOMAIN tbl : i # row.id => tbl[i][c] # row[c]

\* InsertStmt with the id taken as the greatest id in the table plus one
\* instead of from the sequence.
InsertStmtMaxId(k, u, now, tbl, sq) ==
    LET args == Args(k, u)
        top == IF DOMAIN tbl = {} THEN 0
               ELSE CHOOSE i \in DOMAIN tbl : \A j \in DOMAIN tbl : j <= i
        row == InsertedRow(k, args, top + 1, now)
    IN  IF ~ColumnsExist(k, DOMAIN args) \/ ~CheckOK(k, row) \/ ~UniqueOK(k, row, tbl)
        THEN Result("pq", tbl, sq, <<>>)
        ELSE Result("none", ((top + 1) :> row) @@ tbl, sq, <<row>>)

\* INSERT INTO <k> (...) VALUES (...) RETURNING id, created_at, updated_at.
\* A row the constraints reject has already drawn its id from the sequence.
InsertStmt(k, u, now, tbl, sq) ==
    LET args == Args(k, u)
        id == NextVal(sq)
        row == InsertedRow(k, args, id, now)
    IN  IF ~ColumnsExist(k, DOMAIN args) THEN Result("pq", tbl, sq, <<>>)
        ELSE IF \/ \E c \in NotNullColumns(k) :
                       c \notin DOMAIN args /\ c \notin DefaultColumns(k)
                \/ ~CheckOK(k, row)
                \/ ~UniqueOK(k, row, tbl)
             THEN Result("pq", tbl, id, <<>>)
        ELSE Result("none", (id :> row) @@ tbl, id, <<row>>)

\* The trigger update_updated_at_column, BEFORE UPDATE FOR EACH ROW.
UpdateUpdatedAtColumn(new, now) == [new EXCEPT !.updated_at = now]

\* The zero value of the struct field passed for column c: the empty string,
\* 0, or nil (CourierID is a *int).
ZeroValue(c) ==
    IF c \in {"email", "name", "status", "address", "payment_method"} THEN ""
    ELSE IF c = "courier_id" THEN NULL
    ELSE 0

\* SetColumns as a patch: a column whose argument is the zero value of its
\* type keeps its previous value.
SetColumnsPatch(old, args, now) ==
    [c \in DOMAIN old |->
        IF c \in DOMAIN args /\ args[c] # ZeroValue(c) THEN Coerce(c, args[c])
        ELSE IF c = "updated_at" THEN now
        ELSE old[c]]

\* The SET list of the UPDATE: every argument column, and updated_at = NOW().
SetColumns(old, args, now) ==
    [c \in DOMAIN old |->
        IF c \in DOMAIN args THEN Coerce(c, args[c])
        ELSE IF c = "updated_at" THEN now
        ELSE old[c]]

\* Returning with the row as it was read before the write.
ReturningOld(old, new) == old

\* The row RETURNING hands back: the row as the statement wrote it.
Returning(old, new) == new

\* UPDATE <k> SET ..., updated_at=NOW() WHERE id=$n RETURNING <all columns>.
UpdateStmt(k, u, id, now, tbl, sq) ==
    LET args == Args(k, u)
    IN  IF ~ColumnsExist(k, DOMAIN args \cup SelectColumns(k))
        THEN Result("pq", tbl, sq, <<>>)
        ELSE IF id \notin DOMAIN tbl THEN Result("no_rows", tbl, sq, <<>>)
        ELSE LET new == UpdateUpdatedAtColumn(SetColumns(tbl[id], args, now), now)
             IN  IF ~CheckOK(k, new) \/ ~UniqueOK(k, new, tbl)
                 THEN Result("pq", tbl, sq, <<>>)
                 ELSE Result("none", [tbl EXCEPT ![id] = new], sq,
                             <<Returning(tbl[id], new)>>)

\* DeleteStmt without its WHERE clause: every row goes when row id exists.
DeleteStmtNoWhere(k, id, tbl, sq) ==
    IF id \in DOMAIN tbl
    THEN Result("none", [i \in {} |-> tbl[i]], sq, <<tbl[id]>>)
    ELSE Result("none", tbl, sq, <<>>)

\* DELETE FROM <k> WHERE id = $1; ret holds the rows affected.
DeleteStmt(k, id, tbl, sq) ==
    IF id \in DOMAIN tbl
    THEN Result("none", [i \in DOMAIN tbl \ {id} |-> tbl[i]], sq, <<tbl[id]>>)
    ELSE Result("none", tbl, sq, <<>>)

\* SELECT ... FROM <k> WHERE id = $1.
SelectOne(k, id, tbl, sq) ==
    IF ~ColumnsExist(k, SelectColumns(k)) THEN Result("pq", tbl, sq, <<>>)
    ELSE IF id \notin DOMAIN tbl THEN Result("no_rows", tbl, sq, <<>>)
    ELSE Result("none", tbl, sq, <<tbl[id]>>)

\* ORDER BY id: the rows by ascending id (every id came from the sequence).
OrderById(tbl, sq) ==
    LET ids == SelectSeq([i \in 1..sq |-> i], LAMBDA i : i \in DOMAIN tbl)
    IN  [n \in 1..Len(ids) |-> tbl[ids[n]]]

\* Limit with the LIMIT clause left out.
LimitNone(s, n) == s

\* LIMIT n.
Limit(s, n) == SubSeq(s, 1, IF Len(s) < n THEN Len(s) ELSE n)

\* SELECT ... FROM <k> ORDER BY id LIMIT 100.
SelectAll(k, tbl, sq) ==
    IF ~ColumnsExist(k, SelectColumns(k)) THEN Result("pq", tbl, sq, <<>>)
    ELSE Result("none", tbl, sq, Limit(OrderById(tbl, sq), PageSize))

----------------------------------------------------------------------------
(* The process of a service: its configuration, its globals and the      *)
(* replica probe of the orders service.                                      *)

\* The values of DATABASE_URL tried: unset, one the driver cannot use, and
\* the address of the store.
DatabaseURLs == {"", "postgres//orders-db", "postgres://orders-db:5432/orders"}

\* The environment of replica r.  Each replica is given a REPLICA_ID of its
\* own; the first may run without one.
Environments(r) ==
    [DATABASE_URL : DatabaseURLs,
     REPLICA_ID : (IF r = 1 THEN {""} ELSE {}) \cup {"orders-" \o ToString(r)}]

\* A process before main() has run: db is the package variable (nil), and
\* replicaID the empty string.
NewProcess(env) ==
    [pc |-> "start", env |-> env, replicaID |-> "", db |-> "nil",
     \* history, for the properties
     checked |-> "no", routes |-> FALSE, listened |-> FALSE]

\* log.Fatal / log.Fatalf: os.Exit(1).  The process ends at once; deferred
\* calls (db.Close) do not run.
Fatalf(p) == [p EXCEPT !.pc = "exited"]

\* ReadReplicaID with the environment ignored.
ReadReplicaIDDefault(env) == "default"

\* replicaID = os.Getenv("REPLICA_ID"), "default" when it is empty.
ReadReplicaID(env) == IF env.REPLICA_ID = "" THEN "default" ELSE env.REPLICA_ID

\* db.Ping() with a connection string and a store: it connects only to a
\* store that answers, at an address the driver can parse.
PingOK(url, up) == up /\ url = "postgres://orders-db:5432/orders"

\* AfterPing with the error logged and main() going on.
AfterPingIgnored(p, err) == [p EXCEPT !.pc = "pinged"]

\* if err = db.Ping(); err != nil { log.Fatalf(...) }
AfterPing(p, err) == IF err THEN Fatalf(p) ELSE [p EXCEPT !.pc = "pinged"]

\* getSystemID that asks the store first and answers 500 when it is down.
getSystemIDPing(p, up) ==
    IF up /\ p.db = "open"
    THEN [status |-> StatusOK, ReplicaID |-> p.replicaID, Timestamp |-> "NOW()"]
    ELSE [status |-> StatusInternalServerError, ReplicaID |-> "", Timestamp |-> ""]

\* getSystemID with the timestamp asked of the store (SELECT NOW()), left
\* empty when the store does not answer.
getSystemIDStoreTime(p, up) ==
    [status |-> StatusOK, ReplicaID |-> p.replicaID,
     Timestamp |-> IF up /\ p.db = "open" THEN "NOW()" ELSE ""]

\* getSystemID in process p, with the store up or not: the handler encodes
\* the package variable replicaID and the literal "NOW()"; it does not use db.
getSystemID(p, up) ==
    [status |-> StatusOK, ReplicaID |-> p.replicaID, Timestamp |-> "NOW()"]

\* The replicas that accept requests.
Live == {r \in Replicas : proc[r].pc = "serving"}

\* The gateway's distribution policy, round-robin: the first live replica
\* after the one served last, in cyclic order.
NextReplica(last, live) ==
    LET turn(d) == ((last + d - 1) % NumReplicas) + 1
        d == CHOOSE e \in 1..NumReplicas :
                 /\ turn(e) \in live
                 /\ \A f \in 1..(e - 1) : turn(f) \notin live
    IN  turn(d)

\* A replica that main() has brought to serving.
ServingProcess(r) ==
    LET env == [DATABASE_URL |-> "postgres://orders-db:5432/orders",
                REPLICA_ID |-> "orders-" \o ToString(r)]
    IN  [NewProcess(env) EXCEPT !.pc = "serving", !.replicaID = ReadReplicaID(env),
                                !.db = "open", !.checked = "ok", !.routes = TRUE,
                                !.listened = TRUE]

----------------------------------------------------------------------------
(* Requests. *)

Ops == {"list", "get", "create", "update", "delete"}

\* The {id} path segments tried: 1 is a bootstrap row, 4 the first id the
\* sequence hands out (no row's id until then).
PathIds == {1, 4}

\* The struct of service k before anything is decoded into it.
ZeroStruct(k) ==
    CASE k = "users" ->
           [ID |-> 0, Email |-> "", Name |-> "", Age |-> 0,
            CreatedAt |-> NoTime, UpdatedAt |-> NoTime]
      [] k = "orders" ->
           [ID |-> 0, UserID |-> 0, TotalAmount |-> 0, Status |-> "",
            CreatedAt |-> NoTime, UpdatedAt |-> NoTime]
      [] k = "payments" ->
           [ID |-> 0, OrderID |-> 0, Amount |-> 0, Status |-> "", PaymentMethod |-> "",
            CreatedAt |-> NoTime, UpdatedAt |-> NoTime]
      [] k = "deliveries" ->
           [ID |-> 0, OrderID |-> 0, Address |-> "", Status |-> "", CourierID |-> NULL,
            CreatedAt |-> NoTime, UpdatedAt |-> NoTime]

\* The request bodies tried, as json.Decode leaves the struct.
Bodies(k) ==
    LET z == ZeroStruct(k)
    IN  CASE k = "users" ->
               { [z EXCEPT !.Email = "dave@example.com", !.Name = "Dave", !.Age = 30],
                 [z EXCEPT !.Email = "alice@example.com", !.Name = "Alice J", !.Age = 29,
                           !.ID = 2, !.CreatedAt = 9, !.UpdatedAt = 9],
                 [z EXCEPT !.Email = "erin@example.com", !.Name = "Erin", !.Age = 151],
                 [z EXCEPT !.Email = "erin-at-example", !.Name = "E", !.Age = 0] }
          [] k = "orders" ->
               { [z EXCEPT !.UserID = 1, !.TotalAmount = 10000, !.Status = "pending"],
                 [z EXCEPT !.UserID = 2, !.TotalAmount = 10005, !.Status = "shipped",
                           !.ID = 2, !.CreatedAt = 9, !.UpdatedAt = 9],
                 [z EXCEPT !.UserID = 1, !.TotalAmount = 0, !.Status = "pending"],
                 [z EXCEPT !.UserID = 1, !.TotalAmount = 0 - 10000, !.Status = "pending"],
                 [z EXCEPT !.UserID = 1, !.TotalAmount = 10000, !.Status = "bogus"] }
          [] k = "payments" ->
               { [z EXCEPT !.OrderID = 1, !.Amount = 10000, !.Status = "pending",
                           !.PaymentMethod = "card"],
                 [z EXCEPT !.OrderID = 1, !.Amount = 10000, !.Status = "pending",
                           !.PaymentMethod = "bitcoin"],
                 [z EXCEPT !.OrderID = 1, !.Amount = 0, !.Status = "completed",
                           !.PaymentMethod = "cash"] }
          [] k = "deliveries" ->
               { [z EXCEPT !.OrderID = 1, !.Address = "221B Baker Street, London",
                           !.Status = "pending"],
                 [z EXCEPT !.OrderID = 1, !.Address = "short", !.Status = "pending"],
                 [z EXCEPT !.OrderID = 1, !.Address = "221B Baker Street, London",
                           !.Status = "lost", !.CourierID = 7] }

\* The requests tried: only Create and Update carry a body, only Get, Update
\* and Delete an {id}.
Requests(k) ==
    LET Q(op, id, u, d) == [op |-> op, id |-> id, u |-> u, decodes |-> d]
    IN  {Q("list", 0, ZeroStruct(k), TRUE)}
        \cup {Q(op, id, ZeroStruct(k), TRUE) : op \in {"get", "delete"}, id \in PathIds}
        \cup {Q("create", 0, u, TRUE) : u \in Bodies(k)}
        \cup {Q("update", id, u, TRUE) : id \in PathIds, u \in Bodies(k)}
        \cup {Q("create", 0, ZeroStruct(k), FALSE)}
        \cup {Q("update", id, ZeroStruct(k), FALSE) : id \in PathIds}

\* A handler that holds no request.
Idle(k) ==
    [pc |-> "idle", op |-> "list", id |-> 0, body |-> ZeroStruct(k), now |-> 0,
     status |-> 0, out |-> <<>>,
     \* history of the request, for the properties
     decoded |-> FALSE, stmts |-> 0, fault |-> FALSE, wrote |-> FALSE, before |-> <<>>,
     start |-> 0, serial |-> 0, wasDeleted |-> FALSE]

Init ==
    /\ kind \in Kinds
    /\ rows = BootstrapRows(kind)
    /\ seq = 3
    /\ clock = 0
    /\ req = [h \in Handlers |-> Idle(kind)]
    /\ nreq = 0
    /\ nexec = 0
    /\ issued = <<>>
    /\ deleted = {}
    /\ proc = [r \in Replicas |-> ServingProcess(r)]
    /\ storeUp = TRUE
    /\ gateway = [last |-> NumReplicas, run |-> <<>>]

\* Receive with the error of json.Decode ignored: the handler goes on with
\* the struct as it is.
ReceiveDecodeIgnored(h, op, id, u, decodes) ==
    /\ Live # {}
    /\ nreq < MaxRequests
    /\ req[h].pc \in {"idle", "done"}
    /\ \A g \in Handlers : g < h => req[g].pc = "sent"
    /\ nreq' = nreq + 1
    /\ req' = [req EXCEPT ![h] =
            [Idle(kind) EXCEPT !.pc = "sent", !.op = op, !.id = id, !.body = u,
                               !.now = clock + 1, !.decoded = TRUE, !.stmts = 1,
                               !.start = nexec, !.wasDeleted = (id \in deleted)]]
    /\ clock' = clock + 1
    /\ UNCHANGED <<kind, rows, seq, nexec, issued, deleted, procVars>>

\* The router hands a request to a handler (the first one that holds no
\* request in flight).  A handler with a body decodes it
\* first and answers 400 when it does not decode; otherwise the handler
\* sends its one statement.  The statement runs in a transaction of its own,
\* and NOW() / CURRENT_TIMESTAMP in it is the time this transaction starts:
\* a reading of the clock later than that of every transaction before it.
Receive(h, op, id, u, decodes) ==
    /\ Live # {}
    /\ nreq < MaxRequests
    /\ req[h].pc \in {"idle", "done"}
    /\ \A g \in Handlers : g < h => req[g].pc = "sent"
    /\ nreq' = nreq + 1
    /\ IF op \in {"create", "update"} /\ ~decodes
       THEN req' = [req EXCEPT ![h] =
                [Idle(kind) EXCEPT !.pc = "done", !.op = op, !.id = id,
                                   !.status = StatusBadRequest, !.start = nexec,
                                   !.serial = nexec]]
       ELSE req' = [req EXCEPT ![h] =
                [Idle(kind) EXCEPT !.pc = "sent", !.op = op, !.id = id, !.body = u,
                                   !.now = clock + 1, !.decoded = TRUE, !.stmts = 1,
                                   !.start = nexec, !.wasDeleted = (id \in deleted)]]
    /\ clock' = clock + 1
    /\ UNCHANGED <<kind, rows, seq, nexec, issued, deleted, procVars>>

\* The statement of handler h has run with result r and the handler answers.
Finish(h, status, out, r) ==
    /\ rows' = r.rows
    /\ seq' = r.seq
    /\ nexec' = nexec + 1
    /\ req' = [req EXCEPT ![h] =
            [@ EXCEPT !.pc = "done", !.status = status, !.out = out,
                      !.wrote = (r.rows # rows),
                      !.before = IF req[h].id \in DOMAIN rows THEN <<rows[req[h].id]>>
                                 ELSE <<>>,
                      !.serial = nexec + 1]]
    /\ UNCHANGED <<kind, clock, nreq, procVars>>

\* Scan(&u.ID, &u.CreatedAt, &u.UpdatedAt) of Create: the rest of u is the body.
ScanCreated(u, row) ==
    [u EXCEPT !.ID = row.id, !.CreatedAt = row.created_at, !.UpdatedAt = row.updated_at]

\* createUser, createOrder, createPayment, createDelivery
Create(h) ==
    /\ req[h].pc = "sent" /\ req[h].op = "create"
    /\ LET r == InsertStmt(kind, req[h].body, req[h].now, rows, seq)
       IN  IF r.err # "none"
           THEN /\ Finish(h, StatusInternalServerError, <<>>, r)
                /\ UNCHANGED issued
           ELSE /\ Finish(h, StatusCreated, <<ScanCreated(req[h].body, r.ret[1])>>, r)
                /\ issued' = Append(issued, r.ret[1].id)
    /\ UNCHANGED deleted

\* updateUser, updateOrder, updatePayment, updateDelivery
Update(h) ==
    /\ req[h].pc = "sent" /\ req[h].op = "update"
    /\ LET r == UpdateStmt(kind, req[h].body, req[h].id, req[h].now, rows, seq)
       IN  IF r.err = "no_rows" THEN Finish(h, StatusNotFound, <<>>, r)
           ELSE IF r.err # "none" THEN Finish(h, StatusInternalServerError, <<>>, r)
           ELSE Finish(h, StatusOK, <<ScanStruct(kind, r.ret[1])>>, r)
    /\ UNCHANGED <<issued, deleted>>

\* getUser, getOrder, getPayment, getDelivery
Get(h) ==
    /\ req[h].pc = "sent" /\ req[h].op = "get"
    /\ LET r == SelectOne(kind, req[h].id, rows, seq)
       IN  IF r.err = "no_rows" THEN Finish(h, StatusNotFound, <<>>, r)
           ELSE IF r.err # "none" THEN Finish(h, StatusInternalServerError, <<>>, r)
           ELSE Finish(h, StatusOK, <<ScanStruct(kind, r.ret[1])>>, r)
    /\ UNCHANGED <<issued, deleted>>

\* deleteUser, deleteOrder, deletePayment, deleteDelivery
Delete(h) ==
    /\ req[h].pc = "sent" /\ req[h].op = "delete"
    /\ LET r == DeleteStmt(kind, req[h].id, rows, seq)
       IN  IF r.err # "none"
           THEN /\ Finish(h, StatusInternalServerError, <<>>, r)
                /\ UNCHANGED deleted
           ELSE IF Len(r.ret) = 0
           THEN /\ Finish(h, StatusNotFound, <<>>, r)
                /\ UNCHANGED deleted
           ELSE /\ Finish(h, StatusNoContent, <<>>, r)
                /\ deleted' = deleted \cup {req[h].id}
    /\ UNCHANGED issued

\* getUsers, getOrders, getPayments, getDeliveries
List(h) ==
    /\ req[h].pc = "sent" /\ req[h].op = "list"
    /\ LET r == SelectAll(kind, rows, seq)
       IN  IF r.err # "none" THEN Finish(h, StatusInternalServerError, <<>>, r)
           ELSE Finish(h, StatusOK,
                       [n \in 1..Len(r.ret) |-> ScanStruct(kind, r.ret[n])], r)
    /\ UNCHANGED <<issued, deleted>>

\* StoreFailure with the handler sending its statement again after the error.
StoreFailureRetry(h) ==
    /\ req[h].pc = "sent"
    /\ req' = [req EXCEPT ![h] =
            [req[h] EXCEPT !.stmts = req[h].stmts + 1, !.fault = TRUE]]
    /\ UNCHANGED <<kind, rows, seq, clock, nreq, nexec, issued, deleted, procVars>>

\* The store cannot be reached or the connection breaks before the statement
\* runs: the statement has no effect and the driver returns an error, which
\* every handler answers with 500.
StoreFailure(h) ==
    /\ req[h].pc = "sent"
    /\ req' = [req EXCEPT ![h] =
            [@ EXCEPT !.pc = "done", !.status = StatusInternalServerError,
                      !.fault = TRUE, !.serial = nexec]]
    /\ UNCHANGED <<kind, rows, seq, clock, nreq, nexec, issued, deleted, procVars>>

\* The statement of handler h, as the store runs it.
Statement(h) ==
    CASE req[h].op = "create" ->
           InsertStmt(kind, req[h].body, req[h].now, rows, seq)
      [] req[h].op = "update" ->
           UpdateStmt(kind, req[h].body, req[h].id, req[h].now, rows, seq)
      [] req[h].op = "delete" -> DeleteStmt(kind, req[h].id, rows, seq)
      [] req[h].op = "get" -> SelectOne(kind, req[h].id, rows, seq)
      [] req[h].op = "list" -> SelectAll(kind, rows, seq)

\* The connection breaks after the store has run the statement (each runs in
\* a transaction of its own, committed when it ends) and before the handler
\* has read all of its result.  QueryRow().Scan() and Exec() return the error
\* and the handler answers 500.  In a List the loop over rows.Next() ends at
\* the break with the n rows read so far; the handler does not ask rows.Err()
\* why it ended and answers 200 with them.
ConnectionLost(h) ==
    /\ req[h].pc = "sent"
    /\ LET r == Statement(h)
       IN  /\ rows' = r.rows
           /\ seq' = r.seq
           /\ nexec' = nexec + 1
           /\ IF req[h].op = "list"
              THEN /\ r.err = "none"
                   /\ \E n \in 0..(Len(r.ret) - 1) :
                          req' = [req EXCEPT ![h] =
                              [@ EXCEPT !.pc = "done", !.status = StatusOK,
                                        !.out = [i \in 1..n |-> ScanStruct(kind, r.ret[i])],
                                        !.fault = TRUE, !.serial = nexec + 1]]
              ELSE req' = [req EXCEPT ![h] =
                       [@ EXCEPT !.pc = "done", !.status = StatusInternalServerError,
                                 !.fault = TRUE, !.wrote = (r.rows # rows),
                                 !.before = IF req[h].id \in DOMAIN rows
                                            THEN <<rows[req[h].id]>> ELSE <<>>,
                                 !.serial = nexec + 1]]
    /\ UNCHANGED <<kind, clock, nreq, issued, deleted, procVars>>

Next ==
    \/ \E h \in Handlers, q \in Requests(kind) :
           Receive(h, q.op, q.id, q.u, q.decodes)
    \/ \E h \in Handlers : Create(h)
    \/ \E h \in Handlers : Update(h)
    \/ \E h \in Handlers : Get(h)
    \/ \E h \in Handlers : Delete(h)
    \/ \E h \in Handlers : List(h)
    \/ \E h \in Handlers : StoreFailure(h)
    \/ \E h \in Handlers : ConnectionLost(h)

Spec == Init /\ [][Next]_vars

----------------------------------------------------------------------------
(* Listing a store that has grown: the same handlers, started from a store   *)
(* that Creates have filled and Deletes have thinned.                        *)

\* Row i of such a store: a bootstrap row, or the row of the Create that drew
\* id i, the (i - 3)rd request.
GrownRow(k, i) ==
    IF i <= 3 THEN BootstrapRows(k)[i]
    ELSE InsertedRow(k,
             IF k = "users"
             THEN [email |-> "user" \o ToString(i) \o "@example.com",
                   name |-> "User", age |-> 30]
             ELSE [user_id |-> 1, total_amount |-> 10000, status |-> "pending"],
             i, i - 3)

\* The numbers of ids drawn so far, around the page size, and the ids deleted.
ListSizes == (0..3) \cup ((PageSize - 2)..MaxRows)
ListGaps == {{}, {2}, 1..3}

InitList ==
    /\ kind \in {"users", "orders"}
    /\ \E n \in ListSizes, gap \in ListGaps :
           /\ rows = [i \in (1..n) \ gap |-> GrownRow(kind, i)]
           /\ seq = (IF n < 3 THEN 3 ELSE n)
           /\ clock = (IF n < 3 THEN 0 ELSE n - 3)
           /\ issued = [j \in 1..(IF n < 3 THEN 0 ELSE n - 3) |-> j + 3]
           /\ deleted = (1..3) \ ((1..n) \ gap)
    /\ req = [h \in Handlers |-> Idle(kind)]
    /\ nreq = 0
    /\ nexec = 0
    /\ proc = [r \in Replicas |-> ServingProcess(r)]
    /\ storeUp = TRUE
    /\ gateway = [last |-> NumReplicas, run |-> <<>>]

NextList ==
    \/ \E h \in Handlers : Receive(h, "list", 0, ZeroStruct(kind), TRUE)
    \/ \E h \in Handlers, id \in PathIds : Receive(h, "delete", id, ZeroStruct(kind), TRUE)
    \/ \E h \in Handlers, u \in {b \in Bodies(kind) : Valid(kind, b)} :
           Receive(h, "create", 0, u, TRUE)
    \/ \E h \in Handlers : List(h)
    \/ \E h \in Handlers : Delete(h)
    \/ \E h \in Handlers : Create(h)

SpecList == InitList /\ [][NextList]_vars

----------------------------------------------------------------------------
(* The steps of main(), the store going down and coming back, and the probe *)
(* through the gateway.                                                      *)

\* databaseURL := os.Getenv("DATABASE_URL"), fatal when empty; the orders
\* service then sets replicaID.
Configure(r) ==
    /\ proc[r].pc = "start"
    /\ LET p == proc[r]
       IN  proc' = [proc EXCEPT ![r] =
               IF p.env.DATABASE_URL = "" THEN Fatalf(p)
               ELSE [p EXCEPT !.pc = "configured",
                              !.replicaID = IF kind = "orders"
                                            THEN ReadReplicaID(p.env) ELSE ""]]
    /\ UNCHANGED <<storeVars, storeUp, gateway>>

\* db, err = sql.Open("postgres", databaseURL), fatal on error;
\* defer db.Close().  Open makes the pool and no connection.
SqlOpen(r) ==
    /\ proc[r].pc = "configured"
    /\ \E err \in BOOLEAN :
           proc' = [proc EXCEPT ![r] =
               IF err THEN Fatalf(proc[r])
               ELSE [proc[r] EXCEPT !.pc = "opened", !.db = "open"]]
    /\ UNCHANGED <<storeVars, storeUp, gateway>>

\* err = db.Ping(), fatal on error
DbPing(r) ==
    /\ proc[r].pc = "opened"
    /\ LET ok == PingOK(proc[r].env.DATABASE_URL, storeUp)
       IN  proc' = [proc EXCEPT ![r] =
               AfterPing([proc[r] EXCEPT !.checked = IF ok THEN "ok" ELSE "failed"],
                         ~ok)]
    /\ UNCHANGED <<storeVars, storeUp, gateway>>

\* router := mux.NewRouter() and the router.HandleFunc calls
RegisterRoutes(r) ==
    /\ proc[r].pc = "pinged"
    /\ proc' = [proc EXCEPT ![r] = [proc[r] EXCEPT !.pc = "routed", !.routes = TRUE]]
    /\ UNCHANGED <<storeVars, storeUp, gateway>>

\* http.ListenAndServe(":"+port, router): it listens and serves, or returns
\* an error at once (the port is taken), which is fatal.  The gateway starts
\* a new run when the set of live replicas changes.
ListenAndServe(r) ==
    /\ proc[r].pc = "routed"
    /\ \E err \in BOOLEAN :
           IF err
           THEN /\ proc' = [proc EXCEPT ![r] = Fatalf([proc[r] EXCEPT !.listened = TRUE])]
                /\ UNCHANGED gateway
           ELSE /\ proc' = [proc EXCEPT ![r] =
                         [proc[r] EXCEPT !.pc = "serving", !.listened = TRUE]]
                /\ gateway' = [gateway EXCEPT !.run = <<>>]
    /\ UNCHANGED <<storeVars, storeUp>>

\* http.ListenAndServe returns while serving; what it returns is never nil,
\* so main() ends in log.Fatalf.
ServeError(r) ==
    /\ proc[r].pc = "serving"
    /\ proc' = [proc EXCEPT ![r] = Fatalf(proc[r])]
    /\ gateway' = [gateway EXCEPT !.run = <<>>]
    /\ UNCHANGED <<storeVars, storeUp>>

\* The store goes down or comes back.
StoreToggle ==
    /\ storeUp' = ~storeUp
    /\ UNCHANGED <<storeVars, proc, gateway>>

\* GET /system-id through the gateway: the gateway passes the request to the
\* next live replica and the answer back unchanged.  run is the probes
\* answered since the set of live replicas last changed.
Probe ==
    /\ kind = "orders"
    /\ Live # {}
    /\ Len(gateway.run) < MaxProbes
    /\ LET r == NextReplica(gateway.last, Live)
       IN  gateway' = [last |-> r,
                       run |-> Append(gateway.run,
                                  [replica |-> r, up |-> storeUp,
                                   resp |-> getSystemID(proc[r], storeUp)])]
    /\ UNCHANGED <<storeVars, proc, storeUp>>

InitMain ==
    /\ kind \in {"users", "orders"}
    /\ rows = BootstrapRows(kind)
    /\ seq = 3
    /\ clock = 0
    /\ nreq = 0
    /\ nexec = 0
    /\ issued = <<>>
    /\ deleted = {}
    /\ req = [h \in Handlers |-> Idle(kind)]
    /\ proc \in [Replicas -> UNION {{NewProcess(e) : e \in Environments(r)} : r \in Replicas}]
    /\ \A r \in Replicas : proc[r].env \in Environments(r)
    /\ storeUp \in BOOLEAN
    /\ gateway = [last |-> NumReplicas, run |-> <<>>]

NextMain ==
    \/ \E r \in Replicas : Configure(r)
    \/ \E r \in Replicas : SqlOpen(r)
    \/ \E r \in Replicas : DbPing(r)
    \/ \E r \in Replicas : RegisterRoutes(r)
    \/ \E r \in Replicas : ListenAndServe(r)
    \/ \E r \in Replicas : ServeError(r)
    \/ StoreToggle
    \/ Probe

SpecMain == InitMain /\ [][NextMain]_vars

----------------------------------------------------------------------------
(* Properties. *)

\* Handler h has answered its request.
Done(h) == req[h].pc = "done"

\* Handler h has answered and the store ran its statement.
Ran(h) == Done(h) /\ req[h].stmts = 1 /\ ~req[h].fault

\* In this step the store runs the statement of h and h answers.
Answers(h) == req[h].pc = "sent" /\ req'[h].pc = "done" /\ ~req'[h].fault

\* The requests of g and h were in flight at the same time.
Concurrent(g, h) == req[g].start < req[h].serial /\ req[h].start < req[g].serial

\* C1: a Create whose payload violates a constraint declared for the resource
\* type is rejected (the claim: with 400) and no row is written.
C1_InvalidCreateRejected ==
    \A h \in Handlers :
        (Done(h) /\ req[h].op = "create" /\ req[h].decoded /\ ~req[h].fault
           /\ ~Valid(kind, req[h].body))
        => (req[h].status # StatusCreated /\ ~req[h].wrote)

\* C2: what a successful Update returns is row id as that Update's own
\* statement left it (its arguments, its NOW()), under every interleaving;
\* the identity and timestamps a Create returns are those of the row it
\* inserted.
C2_ReturnedByOwnStatement ==
    [][\A h \in Handlers :
          Answers(h) =>
            /\ (req[h].op = "update" /\ req'[h].status = StatusOK) =>
                 /\ req[h].id \in DOMAIN rows'
                 /\ req'[h].out = <<ScanStruct(kind, rows'[req[h].id])>>
                 /\ \A c \in DOMAIN Args(kind, req[h].body) :
                        rows'[req[h].id][c] = Coerce(c, Args(kind, req[h].body)[c])
                 /\ rows'[req[h].id].updated_at = req[h].now
            /\ (req[h].op = "create" /\ req'[h].status = StatusCreated) =>
                 LET u == req'[h].out[1]
                 IN  /\ u.ID \in DOMAIN rows' \ DOMAIN rows
                     /\ u.CreatedAt = rows'[u.ID].created_at
                     /\ u.UpdatedAt = rows'[u.ID].updated_at
                     /\ u.CreatedAt = req[h].now]_vars

\* Two Updates of the same row with different payloads were in flight together
\* and both were answered 200.
C2_Witness ==
    \E g, h \in Handlers :
        /\ g # h /\ Ran(g) /\ Ran(h) /\ Concurrent(g, h)
        /\ req[g].op = "update" /\ req[h].op = "update" /\ req[g].id = req[h].id
        /\ req[g].status = StatusOK /\ req[h].status = StatusOK
        /\ req[g].body # req[h].body

\* C3: of two concurrent successful Updates of one identity, the row ends as
\* the payload of the one serialized last, and the updated_at that one returns
\* is not earlier than the updated_at the first one returned.
C3_ConcurrentUpdatesOrdered ==
    \A g, h \in Handlers :
        (/\ g # h /\ Ran(g) /\ Ran(h) /\ Concurrent(g, h)
         /\ req[g].op = "update" /\ req[h].op = "update" /\ req[g].id = req[h].id
         /\ req[g].status = StatusOK /\ req[h].status = StatusOK
         /\ req[g].serial < req[h].serial)
        => /\ req[h].out[1].UpdatedAt >= req[g].out[1].UpdatedAt
           /\ (nexec = req[h].serial) =>
                 \A c \in DOMAIN Args(kind, req[h].body) :
                     rows[req[h].id][c] = Coerce(c, Args(kind, req[h].body)[c])

\* C4: the identity a Create returns is positive and was returned by no
\* earlier Create, also after the row of an earlier one was deleted; the
\* created_at it returns equals the updated_at.
C4_FreshIdentity ==
    /\ \A i \in 1..Len(issued) :
           /\ issued[i] > 0
           /\ \A j \in 1..Len(issued) : i # j => issued[i] # issued[j]
    /\ \A h \in Handlers :
           (Done(h) /\ req[h].op = "create" /\ req[h].status = StatusCreated)
           => LET u == req[h].out[1]
              IN  /\ u.ID > 0
                  /\ \E i \in 1..Len(issued) : issued[i] = u.ID
                  /\ u.CreatedAt = u.UpdatedAt

\* A Create has returned an identity after the row of an earlier Create was deleted.
C4_Witness ==
    /\ Len(issued) >= 2
    /\ issued[1] \in deleted
    /\ \E h \in Handlers :
           /\ Done(h) /\ req[h].op = "create" /\ req[h].status = StatusCreated
           /\ req[h].out[1].ID = issued[Len(issued)]

\* C5: a successful Update returns the target's identity, an updated_at
\* strictly greater than the row's updated_at before it, and the row's
\* created_at.
C5_UpdateAdvancesUpdatedAt ==
    \A h \in Handlers :
        (Ran(h) /\ req[h].op = "update" /\ req[h].status = StatusOK)
        => LET u == req[h].out[1]
               old == req[h].before[1]
           IN  /\ u.ID = req[h].id
               /\ u.UpdatedAt > old.updated_at
               /\ u.CreatedAt = old.created_at

\* C6: the status of every stored row is one of the values declared for its
\* resource type.
C6_StatusInDeclaredSet ==
    \A id \in DOMAIN rows :
        /\ kind = "orders" => rows[id].status \in OrderStatuses
        /\ kind = "payments" => rows[id].status \in PaymentStatuses
        /\ kind = "deliveries" => rows[id].status \in DeliveryStatuses

\* C7: an Update whose payload violates a declared constraint is rejected as
\* invalid whether or not the target exists (the claim: with 400 and before
\* any statement): it is answered neither 200 nor 404 and writes nothing.
C7_InvalidUpdateRejected ==
    \A h \in Handlers :
        (Done(h) /\ req[h].op = "update" /\ req[h].decoded /\ ~req[h].fault
           /\ ~Valid(kind, req[h].body))
        => (req[h].status \notin {StatusOK, StatusNotFound} /\ ~req[h].wrote)

\* C8: a Get(id) or Delete(id) received after Delete(id) was answered 204 is
\* answered 404 and leaves the store as it was.
C8_DeletedStaysNotFound ==
    \A h \in Handlers :
        (Ran(h) /\ req[h].op \in {"get", "delete"} /\ req[h].wasDeleted)
        => (req[h].status = StatusNotFound /\ ~req[h].wrote)

\* C10: every stored row has updated_at >= created_at.
C10_UpdatedNotBeforeCreated ==
    \A id \in DOMAIN rows : rows[id].updated_at >= rows[id].created_at

----------------------------------------------------------------------------
(* Properties of Create, Update and the error paths. *)

\* C11: for every resource type, a Create whose payload satisfies every
\* constraint declared for the type (the unique email of users included) is
\* answered 201 with the resource, and exactly one new row, the one returned,
\* is stored.
C11_ValidCreateSucceeds ==
    [][\A h \in Handlers :
          (/\ Answers(h) /\ req[h].op = "create" /\ Valid(kind, req[h].body)
           /\ kind = "users" =>
                 \A i \in DOMAIN rows : rows[i].email # req[h].body.Email)
          => /\ req'[h].status = StatusCreated
             /\ Cardinality(DOMAIN rows') = Cardinality(DOMAIN rows) + 1
             /\ DOMAIN rows' \ DOMAIN rows = {req'[h].out[1].ID}]_vars

\* C12: the resource a successful Create or Update returns equals, field for
\* field, the resource a Get of the same identity returns when the Get's
\* statement is the next one the store runs.
C12_ReturnedEqualsGet ==
    \A g, h \in Handlers :
        (/\ g # h /\ Ran(g) /\ Ran(h)
         /\ req[h].op \in {"create", "update"}
         /\ req[h].status \in {StatusOK, StatusCreated}
         /\ req[g].op = "get" /\ req[g].status = StatusOK
         /\ req[g].id = req[h].out[1].ID
         /\ req[g].serial = req[h].serial + 1)
        => req[g].out = req[h].out

\* C13: an Update with a valid payload whose target identity is not in the
\* store is answered 404 and changes no row.
C13_UpdateMissingNotFound ==
    \A h \in Handlers :
        (/\ Ran(h) /\ req[h].op = "update" /\ Valid(kind, req[h].body)
         /\ req[h].before = <<>>)
        => (req[h].status = StatusNotFound /\ ~req[h].wrote)

\* C16: a request during which the store fails is answered 500, never 404 or
\* a success.
C16_StoreFailureIsServerError ==
    \A h \in Handlers :
        (Done(h) /\ req[h].fault) => req[h].status = StatusInternalServerError

\* C17: a Create, Update or Delete answered with an error (400, 404, 500) has
\* left the store unchanged, and one answered with success has applied its
\* mutation.
C17_NoPartialSuccess ==
    \A h \in Handlers :
        (Done(h) /\ req[h].op \in {"create", "update", "delete"})
        => /\ req[h].status \in {StatusBadRequest, StatusNotFound,
                                 StatusInternalServerError} => ~req[h].wrote
           /\ req[h].status \in {StatusOK, StatusCreated, StatusNoContent}
                 => req[h].wrote

\* C18: a POST or PUT whose body does not decode is answered 400 at once: the
\* handler issues no statement and the store is as it was, whether or not the
\* target of a PUT exists.
C18_UndecodableBodyRejected ==
    [][\A h \in Handlers, q \in Requests(kind) :
          (~q.decodes /\ Receive(h, q.op, q.id, q.u, q.decodes))
          => /\ req'[h].pc = "done"
             /\ req'[h].status = StatusBadRequest
             /\ req'[h].stmts = 0
             /\ rows' = rows /\ seq' = seq /\ nexec' = nexec]_vars

\* A PUT to an existing row and a PUT to a missing one, both with a body that
\* does not decode, have been answered 400.
C18_Witness ==
    \E g, h \in Handlers :
        /\ Done(g) /\ req[g].op = "update" /\ ~req[g].decoded
        /\ req[g].status = StatusBadRequest /\ req[g].id \in DOMAIN rows
        /\ Done(h) /\ req[h].op = "update" /\ ~req[h].decoded
        /\ req[h].status = StatusBadRequest /\ req[h].id \notin DOMAIN rows

----------------------------------------------------------------------------
(* Properties of the process and of the probe. *)

\* The identifier REPLICA_ID configures for replica r.
ConfiguredID(r) ==
    IF proc[r].env.REPLICA_ID = "" THEN "default" ELSE proc[r].env.REPLICA_ID

\* C14: every probe is answered 200 with the identifier configured for the
\* replica that served it ("default" when REPLICA_ID is absent), whether the
\* store is up or down, and changes nothing but the gateway's bookkeeping;
\* the identifier of a process does not change once main() has set it.
C14_ProbeReportsReplicaId ==
    [][/\ \A r \in Replicas :
             proc[r].pc # "start" => proc'[r].replicaID = proc[r].replicaID
       /\ Len(gateway'.run) = Len(gateway.run) + 1 =>
             LET e == gateway'.run[Len(gateway'.run)]
             IN  /\ e.resp.status = StatusOK
                 /\ e.resp.ReplicaID = ConfiguredID(e.replica)
                 /\ e.up = storeUp
                 /\ UNCHANGED <<storeVars, proc, storeUp>>]_vars

\* A probe was answered while the store was down, and a replica without a
\* REPLICA_ID has answered one.
C14_Witness ==
    \E i, j \in 1..Len(gateway.run) :
        /\ ~gateway.run[i].up /\ gateway.run[i].resp.status = StatusOK
        /\ gateway.run[i].resp.ReplicaID # "default"
        /\ gateway.run[j].resp.ReplicaID = "default"

\* C15: a process that has registered routes or listened had a non-empty
\* connection string and a connectivity check that succeeded; one whose
\* string was empty or whose check failed has exited without registering a
\* route or listening.
C15_NoTrafficWithoutStore ==
    \A r \in Replicas :
        /\ (proc[r].routes \/ proc[r].listened \/ proc[r].pc \in {"routed", "serving"})
             => (proc[r].env.DATABASE_URL # "" /\ proc[r].checked = "ok")
        /\ (proc[r].pc # "start"
               /\ (proc[r].env.DATABASE_URL = "" \/ proc[r].checked = "failed"))
             => (proc[r].pc = "exited" /\ ~proc[r].routes /\ ~proc[r].listened)

\* One replica serves while another has exited on a failed connectivity check.
C15_Witness ==
    \E q, r \in Replicas :
        /\ proc[q].pc = "serving"
        /\ proc[r].pc = "exited" /\ proc[r].checked = "failed"

\* C19: a process that opened the pool and has exited has closed it.
C19_PoolClosedOnExit ==
    \A r \in Replicas :
        (proc[r].pc = "exited" /\ proc[r].db # "nil") => proc[r].db = "closed"

\* The probes of the current run that replica r answered, by the identifier
\* they report.
Visits(r) ==
    Cardinality({i \in 1..Len(gateway.run) :
                    gateway.run[i].resp.ReplicaID = ConfiguredID(r)})

\* C20: in a run of N probes against R live replicas each replica is visited
\* between floor(N/R) - 1 and ceil(N/R) + 1 times, and with R >= 2 and N >= 4
\* the probes report more than one replica.
C20_ProbesSpreadOverReplicas ==
    LET N == Len(gateway.run)
        R == Cardinality(Live)
    IN  R > 0 =>
          /\ \A r \in Live :
                 /\ Visits(r) >= (N \div R) - 1
                 /\ Visits(r) <= ((N + R - 1) \div R) + 1
          /\ (R >= 2 /\ N >= 4) =>
                 Cardinality({gateway.run[i].resp.ReplicaID : i \in 1..N}) >= 2

\* A run of MaxProbes probes against more than one live replica.
C20_Witness ==
    /\ Cardinality(Live) >= 2
    /\ Len(gateway.run) = MaxProbes

----------------------------------------------------------------------------
(* Properties of the statements: one per request, what they write and what  *)
(* they leave alone.                                                         *)

\* C21: a handler sends at most one statement per request and never sends it
\* again: a request that has sent its statement is answered by the step that
\* ends the statement, an answered handler moves again only for a new
\* request, and the store has run no more statements than requests came in.
C21_OneStatementNoRetry ==
    [][/\ nexec' \in {nexec, nexec + 1}
       /\ nexec' <= nreq'
       /\ \A h \in Handlers :
             /\ req'[h].stmts <= 1
             /\ req[h].pc = "sent" =>
                   /\ req'[h].stmts = 1
                   /\ req'[h].pc = "sent" => req'[h] = req[h]
                   /\ req'[h].pc = "done" => nreq' = nreq
             /\ (req[h].pc = "done" /\ req'[h] # req[h]) => nreq' = nreq + 1]_vars

\* A statement has failed, its handler has answered 500, and the statement
\* was sent once.
C21_Witness ==
    \E h \in Handlers :
        /\ Done(h) /\ req[h].fault /\ req[h].status = StatusInternalServerError
        /\ req[h].stmts = 1 /\ nexec < nreq

\* C22 as claimed: after a successful Update(id, p) every payload column of
\* row id equals the corresponding field of p, and no other row is modified.
C22_UpdateReplacesPayload ==
    [][\A h \in Handlers :
          (Answers(h) /\ req[h].op = "update" /\ req'[h].status = StatusOK) =>
            /\ DOMAIN rows' = DOMAIN rows
            /\ \A c \in DOMAIN Args(kind, req[h].body) :
                   rows'[req[h].id][c] = Args(kind, req[h].body)[c]
            /\ \A j \in DOMAIN rows \ {req[h].id} : rows'[j] = rows[j]]_vars

\* C22 as amended: after a successful Update(id, p) every payload column of
\* row id holds the corresponding field of p as the column's type stores it
\* (an amount rounded to two decimals), a field the body omits (the zero
\* value in p) is stored as that zero value, and no other row is modified.
C22_UpdateReplacesPayloadAsStored ==
    [][\A h \in Handlers :
          (Answers(h) /\ req[h].op = "update" /\ req'[h].status = StatusOK) =>
            /\ DOMAIN rows' = DOMAIN rows
            /\ \A c \in DOMAIN Args(kind, req[h].body) :
                   /\ rows'[req[h].id][c] = Coerce(c, Args(kind, req[h].body)[c])
                   /\ Args(kind, req[h].body)[c] = ZeroValue(c) =>
                          rows'[req[h].id][c] = Args(kind, req[h].body)[c]
            /\ \A j \in DOMAIN rows \ {req[h].id} : rows'[j] = rows[j]]_vars

\* An Update whose body left out age has been answered 200: the row, whose
\* age was not 0, now holds age 0.
C22_Witness ==
    \E h \in Handlers :
        /\ kind = "users" /\ Ran(h) /\ req[h].op = "update"
        /\ req[h].status = StatusOK
        /\ req[h].body.Age = 0 /\ req[h].before[1].age # 0
        /\ req[h].id \in DOMAIN rows /\ rows[req[h].id].age = 0

\* The body with the id and the audit fields it carries taken out.
StripServerFields(u) == [u EXCEPT !.ID = 0, !.CreatedAt = NoTime, !.UpdatedAt = NoTime]

\* C23: the id, createdAt and updatedAt of a request body never reach the
\* store: the statement of a Create or Update does to the store what it does
\* for the body without them; a Create stores and returns the id of the
\* sequence and the time of its statement, and an Update writes the row of
\* the path's id, keeps its id and created_at and returns that id.
C23_ServerFieldsNotClientSettable ==
    [][\A h \in Handlers :
          (Answers(h) /\ req[h].op \in {"create", "update"}) =>
            LET u == req[h].body
                v == StripServerFields(u)
                id == req[h].id
                now == req[h].now
                r == IF req[h].op = "create" THEN InsertStmt(kind, u, now, rows, seq)
                     ELSE UpdateStmt(kind, u, id, now, rows, seq)
                q == IF req[h].op = "create" THEN InsertStmt(kind, v, now, rows, seq)
                     ELSE UpdateStmt(kind, v, id, now, rows, seq)
            IN  /\ r = q
                /\ rows' = q.rows /\ seq' = q.seq
                /\ req'[h].status = StatusCreated =>
                      LET o == req'[h].out[1]
                      IN  /\ o.ID = NextVal(seq) /\ o.CreatedAt = now /\ o.UpdatedAt = now
                          /\ rows'[o.ID].id = o.ID
                          /\ rows'[o.ID].created_at = now /\ rows'[o.ID].updated_at = now
                /\ req'[h].status = StatusOK =>
                      LET o == req'[h].out[1]
                      IN  /\ o.ID = id /\ rows'[id].id = id
                          /\ o.CreatedAt = rows[id].created_at
                          /\ rows'[id].created_at = rows[id].created_at
                          /\ o.UpdatedAt = now /\ rows'[id].updated_at = now]_vars

\* A Create and an Update whose bodies carry an id (another row's) and
\* timestamps have both succeeded.
C23_Witness ==
    \E g, h \in Handlers :
        /\ Ran(g) /\ req[g].op = "create" /\ req[g].status = StatusCreated
        /\ req[g].body.ID # 0 /\ req[g].body.CreatedAt # NoTime
        /\ req[g].out[1].ID # req[g].body.ID
        /\ Ran(h) /\ req[h].op = "update" /\ req[h].status = StatusOK
        /\ req[h].body.ID # 0 /\ req[h].body.ID # req[h].id
        /\ req[h].body.UpdatedAt # NoTime

\* No two rows of table tbl hold the same email.
EmailsUnique(tbl) ==
    \A i, j \in DOMAIN tbl : tbl[i].email = tbl[j].email => i = j

\* The statement of handler h would give its row an email another row holds.
DuplicatesEmail(h) ==
    LET u == req[h].body
    IN  \/ /\ req[h].op = "create"
           /\ \E i \in DOMAIN rows : rows[i].email = u.Email
        \/ /\ req[h].op = "update" /\ req[h].id \in DOMAIN rows
           /\ \E i \in DOMAIN rows \ {req[h].id} : rows[i].email = u.Email

\* C24: in the users store no two rows have the same email, before and after
\* every step; a Create or Update whose email another row already holds is
\* not answered with success and leaves the rows as they were.
C24_EmailStaysUnique ==
    [][kind = "users" =>
          /\ EmailsUnique(rows) /\ EmailsUnique(rows')
          /\ \A h \in Handlers :
                (req[h].pc = "sent" /\ req'[h].pc = "done" /\ DuplicatesEmail(h)) =>
                  /\ req'[h].status \notin {StatusOK, StatusCreated}
                  /\ rows' = rows]_vars

\* A Create and an Update of the users service that carried the email of
\* another row have run their statements and were refused.
C24_Witness ==
    /\ kind = "users"
    /\ \E g, h \in Handlers :
          /\ Ran(g) /\ req[g].op = "create"
          /\ \E i \in DOMAIN rows : rows[i].email = req[g].body.Email
          /\ req[g].status = StatusInternalServerError /\ ~req[g].wrote
          /\ Ran(h) /\ req[h].op = "update" /\ req[h].before # <<>>
          /\ \E i \in DOMAIN rows \ {req[h].id} : rows[i].email = req[h].body.Email
          /\ req[h].status = StatusInternalServerError /\ ~req[h].wrote

\* C25: a List answers 200 with the complete result, the first min(n, 100)
\* rows of the n the store holds, or it answers 500; a failure of the store
\* while the rows are read never gives a 200 with fewer rows.
C25_ListAllOrNothing ==
    [][\A h \in Handlers :
          (req[h].pc = "sent" /\ req[h].op = "list" /\ req'[h].pc = "done") =>
            LET n == Cardinality(DOMAIN rows)
                out == req'[h].out
            IN  /\ req'[h].status \in {StatusOK, StatusInternalServerError}
                /\ req'[h].status = StatusOK =>
                      /\ Len(out) = (IF n < PageSize THEN n ELSE PageSize)
                      /\ {out[i].ID : i \in 1..Len(out)} \subseteq DOMAIN rows
                      /\ \A i \in 1..Len(out) :
                             Cardinality({j \in DOMAIN rows : j < out[i].ID}) = i - 1]_vars

\* C26: a Delete answered with success has removed the row of its id, which
\* was there, and no other row, and left every remaining row as it was; a
\* Get or a List, however it ends, leaves the rows and the sequence alone.
C26_DeleteRemovesOnlyItsRow ==
    [][\A h \in Handlers :
          (req[h].pc = "sent" /\ req'[h].pc = "done") =>
            /\ (req[h].op = "delete" /\ req'[h].status = StatusNoContent) =>
                  /\ req[h].id \in DOMAIN rows
                  /\ DOMAIN rows' = DOMAIN rows \ {req[h].id}
                  /\ \A i \in DOMAIN rows' : rows'[i] = rows[i]
                  /\ seq' = seq
            /\ req[h].op \in {"get", "list"} => (rows' = rows /\ seq' = seq)]_vars

\* A Delete has succeeded on a store that keeps other rows, and a Get of a
\* remaining row was answered afterwards.
C26_Witness ==
    \E g, h \in Handlers :
        /\ Ran(g) /\ req[g].op = "delete" /\ req[g].status = StatusNoContent
        /\ req[g].id \notin DOMAIN rows /\ DOMAIN rows # {}
        /\ Ran(h) /\ req[h].op = "get" /\ req[h].status = StatusOK
        /\ req[h].id \in DOMAIN rows /\ req[g].serial < req[h].serial

----------------------------------------------------------------------------
(* The body of a List response. *)

\* var users []User: a slice that is nil until something is appended to it.
NilSlice == [nil |-> TRUE, elems |-> <<>>]

\* The slice after the loop over rows.Next() has appended the scanned rows.
RECURSIVE AppendScanned(_, _)
AppendScanned(users, scanned) ==
    IF scanned = <<>> THEN users
    ELSE AppendScanned([nil |-> FALSE, elems |-> Append(users.elems, Head(scanned))],
                       Tail(scanned))

\* json.NewEncoder(w).Encode(users): a nil slice is written as null, any
\* other as an array of its elements.
JsonEncode(users) ==
    IF users.nil THEN [null |-> TRUE, array |-> <<>>]
    ELSE [null |-> FALSE, array |-> users.elems]

\* The body of the 200 answer of a List that scanned the rows out.
ListBody(out) == JsonEncode(AppendScanned(NilSlice, out))

\* C27: a List of a store that holds no row is answered 200 with an empty
\* array, a sequence of length 0, and not with null.
C27_EmptyListIsEmptyArray ==
    [][\A h \in Handlers :
          (Answers(h) /\ req[h].op = "list" /\ DOMAIN rows = {}) =>
            /\ req'[h].status = StatusOK
            /\ ~ListBody(req'[h].out).null
            /\ Len(ListBody(req'[h].out).array) = 0]_vars

----------------------------------------------------------------------------
(* The id of the path: /{resource}/{id} matches any segment, and the handler *)
(* converts it with strconv.Atoi, whose error it discards.                   *)

\* The decimal digits, at the position of their value plus one.
Digits == <<"0", "1", "2", "3", "4", "5", "6", "7", "8", "9">>

IsDigit(c) == \E d \in 1..10 : Digits[d] = c

DigitValue(c) == (CHOOSE d \in 1..10 : Digits[d] = c) - 1

\* The value of a sequence of digits, n being the value of those read so far.
RECURSIVE ParseDigits(_, _)
ParseDigits(s, n) ==
    IF s = <<>> THEN n ELSE ParseDigits(Tail(s), 10 * n + DigitValue(Head(s)))

\* strconv.Atoi of a segment (a sequence of characters): an optional sign
\* and at least one digit give the value; anything else gives 0 and an error.
Atoi(s) ==
    LET signed == s # <<>> /\ Head(s) \in {"+", "-"}
        digits == IF signed THEN Tail(s) ELSE s
    IN  IF digits = <<>> \/ \E i \in 1..Len(digits) : ~IsDigit(digits[i])
        THEN [val |-> 0, err |-> TRUE]
        ELSE [val |-> IF signed /\ Head(s) = "-" THEN 0 - ParseDigits(digits, 0)
                      ELSE ParseDigits(digits, 0),
              err |-> FALSE]

\* Segments a client puts in the place of {id}.
PathSegments ==
    {<<"1">>, <<"4">>, <<"a", "b", "c">>, <<"1", "x">>, <<"1", ".", "5">>, <<"-">>}

\* The requests that carry an id in their path.
PathRequests(k) ==
    LET Q(op, seg, u, d) == [op |-> op, seg |-> seg, u |-> u, decodes |-> d]
    IN  {Q(op, seg, ZeroStruct(k), TRUE) : op \in {"get", "delete"}, seg \in PathSegments}
        \cup {Q("update", seg, u, TRUE) : seg \in PathSegments, u \in Bodies(k)}
        \cup {Q("update", seg, ZeroStruct(k), FALSE) : seg \in PathSegments}

\* id, _ := strconv.Atoi(vars["id"]): the handler goes on with the value,
\* whatever the error.
ReceivePath(h, op, seg, u, decodes) == Receive(h, op, Atoi(seg).val, u, decodes)

NextPath ==
    \/ \E h \in Handlers, q \in PathRequests(kind) :
           ReceivePath(h, q.op, q.seg, q.u, q.decodes)
    \/ \E h \in Handlers : Update(h)
    \/ \E h \in Handlers : Get(h)
    \/ \E h \in Handlers : Delete(h)
    \/ \E h \in Handlers : StoreFailure(h)
    \/ \E h \in Handlers : ConnectionLost(h)

SpecPath == Init /\ [][NextPath]_vars

\* C28: a Get, Update or Delete whose id segment is not an integer runs its
\* statement with id 0 and is answered 404 with the store unchanged.
C28_BadIdIsNotFound ==
    [][\A h \in Handlers :
          (/\ Answers(h) /\ req[h].op \in {"get", "update", "delete"}
           /\ \E seg \in PathSegments : Atoi(seg).err /\ req[h].id = Atoi(seg).val) =>
            /\ req[h].id = 0 /\ req[h].id \notin DOMAIN rows
            /\ req'[h].stmts = 1
            /\ req'[h].status = StatusNotFound
            /\ rows' = rows /\ seq' = seq]_vars

\* C29: a Delete and an Update of one id that was in the store, in flight at
\* the same time, the Update carrying a payload the store accepts, end as one
\* of the two serial orders does: Update 200 then Delete 204, or Delete 204
\* then Update 404; the row is gone afterwards, and no Get or Update of the
\* id received after the Delete's 204 succeeds.
C29_DeleteUpdateSerialized ==
    /\ \A g, h \in Handlers :
          (/\ g # h /\ Ran(g) /\ Ran(h) /\ Concurrent(g, h)
           /\ req[g].op = "delete" /\ req[h].op = "update" /\ req[g].id = req[h].id
           /\ (IF req[g].serial < req[h].serial THEN req[g] ELSE req[h]).before # <<>>
           /\ Valid(kind, req[h].body)
           /\ kind = "users" =>
                 \A i \in DOMAIN rows \ {req[h].id} : rows[i].email # req[h].body.Email)
          => /\ \/ /\ req[h].status = StatusOK /\ req[g].status = StatusNoContent
                   /\ req[h].serial < req[g].serial
                \/ /\ req[g].status = StatusNoContent /\ req[h].status = StatusNotFound
                   /\ req[g].serial < req[h].serial
             /\ req[g].id \notin DOMAIN rows
    /\ \A f \in Handlers :
          (Ran(f) /\ req[f].op \in {"get", "update"} /\ req[f].wasDeleted)
          => (req[f].status # StatusOK /\ req[f].id \notin DOMAIN rows)

\* C30: the answer to a probe depends on the identifier of the replica that
\* serves it and on nothing else: its timestamp is the string "NOW()", two
\* answers of one replica are equal whatever the state of the store at each,
\* and the answers of two replicas are equal exactly when their identifiers
\* are.
C30_ProbeAnswerFromReplicaIdAlone ==
    \A i, j \in 1..Len(gateway.run) :
        LET a == gateway.run[i]
            b == gateway.run[j]
        IN  /\ a.resp.Timestamp = "NOW()"
            /\ a.replica = b.replica => a.resp = b.resp
            /\ (a.resp = b.resp) <=> (ConfiguredID(a.replica) = ConfiguredID(b.replica))

\* One replica has answered a probe with the store up and one with the store
\* down, and another replica has answered one.
C30_Witness ==
    \E i, j, k \in 1..Len(gateway.run) :
        /\ gateway.run[i].replica = gateway.run[j].replica
        /\ gateway.run[i].up /\ ~gateway.run[j].up
        /\ gateway.run[i].resp = gateway.run[j].resp
        /\ gateway.run[k].replica # gateway.run[i].replica
        /\ gateway.run[k].resp # gateway.run[i].resp

====
